---- MODULE Spec2Model ----
(***************************************************************************)
(* Voice chatbot (06_gpu_and_ml/voice_chatbot/main.py).                    *)
(*                                                                         *)
(* Three specifications over one set of variables:                         *)
(*   SpecDecode  load_audio on one input, byte by byte                      *)
(*   SpecGen     the tail of AlpacaLoRAModel.generate (decode/split/strip)  *)
(*   Spec        POST /transcribe -> Transcriber.transcribe_segment on      *)
(*               scheduled containers (FairSpec adds the fairness of the   *)
(*               steps of a running call)                                  *)
(***************************************************************************)
EXTENDS Integers, Sequences, FiniteSets, TLC

VARIABLES
    run,        \* SpecDecode: what the ffmpeg subprocess does on the input
    la_pc,      \* SpecDecode: "call" before load_audio ran, "done" after
    la_files,   \* SpecDecode: temporary files that exist on disk
    la_tmp,     \* SpecDecode: name of the temporary file this call created
    la_outcome, \* SpecDecode: how load_audio ended
    decoded,    \* SpecGen: self.tokenizer.decode(s), a string
    gen_pc,     \* SpecGen: "call" / "done"
    gen_outcome,\* SpecGen: how generate ended
    req,        \* Spec: one record per POST /transcribe request
    ctr         \* Spec: one record per transcriber container

vars == <<run, la_pc, la_files, la_tmp, la_outcome,
          decoded, gen_pc, gen_outcome, req, ctr>>
decodeVars == <<run, la_pc, la_files, la_tmp, la_outcome>>
genVars == <<decoded, gen_pc, gen_outcome>>
sysVars == <<req, ctr>>

None == "None"

\* An absent value and a present one
Nothing == <<>>
Some(v) == <<v>>
Get(m) == m[1]
NoOutcome == [kind |-> "none", msg |-> None, value |-> Nothing]

(***************************************************************************)
(* Bounds                                                                  *)
(***************************************************************************)
MaxOutBytes == 4      \* longest stdout of the decoder, in bytes
MaxPieces == 4        \* longest decoded generation output, in pieces
MaxCalls == 2         \* POST /transcribe requests in one behaviour
NumContainers == 2    \* container slots the scheduler may start
TickSeconds == 90     \* granularity of the idle clock, in seconds

ByteVals == {0, 1, 127, 128, 255}   \* the byte values stdout is built from

RECURSIVE SeqsUpTo(_, _)
SeqsUpTo(S, n) ==
    IF n = 0 THEN {<<>>}
    ELSE LET shorter == SeqsUpTo(S, n - 1)
         IN  shorter \cup {Append(s, x) : s \in {t \in shorter : Len(t) = n - 1}, x \in S}

(***************************************************************************)
(* load_audio                                                              *)
(***************************************************************************)
\* stderr texts of a failing decoder run
Diagnostics == {"", "Invalid data found when processing input", "Output file is empty"}

\* One run of the ffmpeg subprocess: exit status, captured stdout, captured stderr.
\* A failing run may already have written part of its output.
FfmpegRuns ==
    [status : {0, 1}, stdout : SeqsUpTo(ByteVals, MaxOutBytes), stderr : Diagnostics]

\* tempfile.NamedTemporaryFile(delete=False, suffix=".wav"): a name not in use.
NamedTemporaryFile(files) == CHOOSE n \in 1..(Cardinality(files) + 1) : n \notin files

\* One little-endian signed 16-bit sample (np.int16) from two bytes.
int16_unsigned(lo, hi) == lo + 256 * hi
int16(lo, hi) ==
    LET u == lo + 256 * hi
    IN  IF u >= 32768 THEN u - 65536 ELSE u

\* np.frombuffer(out, np.int16).flatten(); out has an even number of bytes.
frombuffer(out) == [i \in 1..(Len(out) \div 2) |-> int16(out[2 * i - 1], out[2 * i])]

\* The divisor of line 49, 32768.0
PCM_SCALE == 32768

\* .astype(np.float32) / 32768.0 : every int16 and every int16/2^15 is exact
\* in float32, so a sample is the rational num/den.
astype_float32_div(samples) ==
    [i \in 1..Len(samples) |-> [num |-> samples[i], den |-> PCM_SCALE]]

\* load_audio(data) for a given behaviour of the subprocess.
load_audio_partial(r) ==
    IF r.status # 0
        THEN [kind |-> "return", msg |-> None,
              value |-> Some(astype_float32_div(frombuffer(
                            SubSeq(r.stdout, 1, 2 * (Len(r.stdout) \div 2)))))]
    ELSE IF Len(r.stdout) % 2 # 0
        THEN [kind |-> "ValueError",
              msg |-> "buffer size must be a multiple of element size", value |-> Nothing]
    ELSE [kind |-> "return", msg |-> None,
          value |-> Some(astype_float32_div(frombuffer(r.stdout)))]
load_audio(r) ==
    IF r.status # 0
        \* ffmpeg.Error caught at line 46, RuntimeError raised at line 47
        THEN [kind |-> "RuntimeError",
              msg |-> "Failed to load audio: " \o r.stderr, value |-> Nothing]
    ELSE IF Len(r.stdout) % 2 # 0
        \* np.frombuffer rejects a buffer that is not a whole number of int16
        THEN [kind |-> "ValueError",
              msg |-> "buffer size must be a multiple of element size", value |-> Nothing]
    ELSE [kind |-> "return", msg |-> None,
          value |-> Some(astype_float32_div(frombuffer(r.stdout)))]

\* The files on disk after load_audio: the temporary file is created with
\* delete=False and is closed, never unlinked, on the normal path and on the
\* failing one.
load_audio_files(files) == files \cup {NamedTemporaryFile(files)}

InitDecode ==
    /\ run \in FfmpegRuns
    /\ la_pc = "call"
    /\ la_files = {}
    /\ la_tmp = 0
    /\ la_outcome = NoOutcome

LoadAudio ==
    /\ la_pc = "call"
    /\ la_tmp' = NamedTemporaryFile(la_files)
    /\ la_files' = load_audio_files(la_files)
    /\ la_outcome' = load_audio(run)
    /\ la_pc' = "done"
    /\ UNCHANGED run

(***************************************************************************)
(* AlpacaLoRAModel.generate, from the decoded output on                    *)
(***************************************************************************)
\* The response-delimiter marker of line 217
ResponseMarker == "### Response:"

\* Pieces the decoded output of the generation model is put together from.
Pieces == {ResponseMarker, " ", "\n", "blue", "###"}

RECURSIVE Concat(_)
Concat(ps) == IF ps = <<>> THEN "" ELSE Head(ps) \o Concat(Tail(ps))

DecodedOutputs == {Concat(ps) : ps \in SeqsUpTo(Pieces, MaxPieces)}

\* str.find: the least index >= from at which sep occurs in s, 0 when none does.
find(s, sep, from) ==
    LET hits == {i \in from..(Len(s) - Len(sep) + 1) : SubSeq(s, i, i + Len(sep) - 1) = sep}
    IN  IF hits = {} THEN 0 ELSE CHOOSE i \in hits : \A j \in hits : i <= j

\* str.split(sep): the pieces between the occurrences of sep, left to right.
RECURSIVE split(_, _)
split(s, sep) ==
    LET i == find(s, sep, 1)
    IN  IF i = 0 THEN <<s>>
        ELSE <<SubSeq(s, 1, i - 1)>> \o split(SubSeq(s, i + Len(sep), Len(s)), sep)

\* The characters str.strip() removes (of those the outputs are made of).
Whitespace == {" ", "\n", "\t"}

RECURSIVE lstrip(_)
lstrip(s) ==
    IF Len(s) > 0 /\ SubSeq(s, 1, 1) \in Whitespace
        THEN lstrip(SubSeq(s, 2, Len(s)))
        ELSE s

RECURSIVE rstrip(_)
rstrip(s) ==
    IF Len(s) > 0 /\ SubSeq(s, Len(s), Len(s)) \in Whitespace
        THEN rstrip(SubSeq(s, 1, Len(s) - 1))
        ELSE s

strip(s) == rstrip(lstrip(s))

\* output.split("### Response:")[1].strip() -- Python indexes from 0
generate_unstripped(output) ==
    LET parts == split(output, ResponseMarker)
    IN  IF Len(parts) < 2
            THEN [kind |-> "IndexError", msg |-> "list index out of range", value |-> Nothing]
            ELSE [kind |-> "return", msg |-> None, value |-> Some(parts[2])]
generate(output) ==
    LET parts == split(output, ResponseMarker)
    IN  IF Len(parts) < 2
            THEN [kind |-> "IndexError", msg |-> "list index out of range", value |-> Nothing]
            ELSE [kind |-> "return", msg |-> None, value |-> Some(strip(parts[2]))]

InitGen ==
    /\ decoded \in DecodedOutputs
    /\ gen_pc = "call"
    /\ gen_outcome = NoOutcome

Generate ==
    /\ gen_pc = "call"
    /\ gen_outcome' = generate(decoded)
    /\ gen_pc' = "done"
    /\ UNCHANGED decoded

(***************************************************************************)
(* POST /transcribe, Transcriber and its containers                        *)
(***************************************************************************)
Calls == 1..MaxCalls
Containers == 1..NumContainers

\* container_idle_timeout=180 of the transcribe_segment function
container_idle_timeout_short == 180 \div 3
container_idle_timeout == 180

\* The audio blobs the requests carry, each given by what the decoder does on
\* it: two decodable blobs with different samples and one that is not audio.
AudioBlobs ==
    { [status |-> 0, stdout |-> <<0, 128>>, stderr |-> ""],
      [status |-> 0, stdout |-> <<255, 127, 1, 0>>, stderr |-> ""],
      [status |-> 1, stdout |-> <<1, 0>>, stderr |-> "Invalid data found when processing input"] }

\* whisper's transcribe is opaque: its text is a function of the samples that
\* are in the model's working state when the inference ends.
Transcript(samples) == "text of " \o ToString(samples)

NoRequest ==
    [pc |-> "new", data |-> Nothing, k |-> 0, np_array |-> Nothing,
     invoked |-> 0, outcome |-> NoOutcome, resp |-> [status |-> 0, body |-> ""]]

NoContainer ==
    [state |-> "down", model |-> None, use_gpu |-> FALSE, acquisitions |-> 0,
     inflight |-> {}, busy |-> {}, scratch |-> Nothing, files |-> {}, idle |-> 0]

InitSys ==
    /\ req = [c \in Calls |-> NoRequest]
    /\ ctr = [k \in Containers |-> NoContainer]

\* web.transcribe, lines 108-109: the body is read and the remote call is made.
\* Requests are numbered in the order they arrive.
Post(c, data) ==
    /\ req[c].pc = "new"
    /\ \A b \in Calls : b < c => req[b].pc # "new"
    /\ req' = [req EXCEPT ![c].pc = "call", ![c].data = Some(data)]
    /\ UNCHANGED ctr

\* web.transcribe, line 110, runs when the remote call has ended: return
\* result["text"]; nothing is caught, so an exception of the call becomes the
\* framework's server error response.
web_transcribe_swallow(outcome) ==
    IF outcome.kind = "return"
        THEN [status |-> 200, body |-> Get(outcome.value).text]
        ELSE [status |-> 200, body |-> ""]
web_transcribe(outcome) ==
    IF outcome.kind = "return"
        THEN [status |-> 200, body |-> Get(outcome.value).text]
        ELSE [status |-> 500, body |-> "Internal Server Error"]

\* The remote call of request r has ended with outcome o.
Ends(r, o) == [r EXCEPT !.pc = "responded", !.k = 0, !.outcome = o, !.resp = web_transcribe(o)]

\* Transcriber.__enter__ on a starting container; the function asks for
\* gpu="A10G", so torch.cuda.is_available() holds there.
enter(container) ==
    [container EXCEPT !.state = "up", !.use_gpu = TRUE, !.model = "base.en",
                      !.acquisitions = @ + 1, !.idle = 0]

\* A pending call makes the scheduler start a container (the free slot of
\* least number; slots are interchangeable); __enter__ runs before any input
\* is given to it. whisper.load_model may raise, which ends the container and
\* fails the call.
ColdStart(k, c, ok) ==
    /\ ctr[k].state = "down"
    /\ \A j \in Containers : ctr[j].state = "down" => k <= j
    /\ req[c].pc = "call"
    /\ IF ok
         THEN /\ ctr' = [ctr EXCEPT ![k] = enter(@)]
              /\ UNCHANGED req
         ELSE /\ req' = [req EXCEPT ![c] =
                            Ends(@, [kind |-> "load_model", msg |-> None, value |-> Nothing])]
              /\ UNCHANGED ctr

\* The function is declared without input concurrency: a container takes an
\* input only when it is running none.
CanAdmit_concurrent(k) == ctr[k].state = "up"
CanAdmit(k) == ctr[k].state = "up" /\ ctr[k].inflight = {}

\* transcribe_segment starts on container k (line 68).
Admit(k, c) ==
    /\ CanAdmit(k)
    /\ req[c].pc = "call"
    /\ req' = [req EXCEPT ![c].pc = "load_audio", ![c].k = k]
    /\ ctr' = [ctr EXCEPT ![k].inflight = @ \cup {c}, ![k].idle = 0]

\* Line 69: np_array = load_audio(audio_data); an exception leaves the function.
decode_step_swallow(data) ==
    LET o == load_audio(data)
    IN  [pc |-> "transcribe",
         np_array |-> IF o.kind = "return" THEN o.value ELSE Some(<<>>),
         outcome |-> NoOutcome]
decode_step(data) ==
    LET o == load_audio(data)
    IN  IF o.kind = "return"
            THEN [pc |-> "transcribe", np_array |-> o.value, outcome |-> NoOutcome]
            ELSE [pc |-> "raise", np_array |-> Nothing, outcome |-> o]

LoadAudioStep(c) ==
    LET k == req[c].k
        d == decode_step(Get(req[c].data))
    IN  /\ req[c].pc = "load_audio"
        /\ req' = [req EXCEPT ![c] =
                      IF d.pc = "raise" THEN Ends(@, d.outcome)
                      ELSE [@ EXCEPT !.pc = d.pc, !.np_array = d.np_array]]
        /\ ctr' = [ctr EXCEPT ![k].files = load_audio_files(@),
                              ![k].inflight = IF d.pc = "raise" THEN @ \ {c} ELSE @,
                              ![k].idle = 0]

\* Line 70, entry: self.model.transcribe(np_array, language="en", fp16=self.use_gpu)
model_transcribe_reload(container, c, samples) ==
    [container EXCEPT !.busy = @ \cup {c}, !.scratch = Some(samples), !.acquisitions = @ + 1]
model_transcribe(container, c, samples) ==
    [container EXCEPT !.busy = @ \cup {c}, !.scratch = Some(samples)]

TranscribeBegin(c) ==
    LET k == req[c].k
    IN  /\ req[c].pc = "transcribe"
        /\ ctr[k].model # None
        /\ req' = [req EXCEPT ![c].pc = "inferring", ![c].invoked = @ + 1]
        /\ ctr' = [ctr EXCEPT ![k] = model_transcribe(@, c, Get(req[c].np_array))]

\* Line 70, exit, and lines 71-73: the result is returned, or the model's
\* exception leaves the function; either way the web handler answers.
TranscribeEnd(c, ok) ==
    LET k == req[c].k
    IN  /\ req[c].pc = "inferring"
        /\ req' = [req EXCEPT ![c] =
                      Ends(@, IF ok THEN [kind |-> "return", msg |-> None,
                                          value |-> Some([text |-> Transcript(Get(ctr[k].scratch)),
                                                          language |-> "en",
                                                          fp16 |-> ctr[k].use_gpu])]
                                    ELSE [kind |-> "inference", msg |-> None, value |-> Nothing])]
        /\ ctr' = [ctr EXCEPT ![k].busy = @ \ {c}, ![k].inflight = @ \ {c}, ![k].idle = 0]

\* Time passes on a container that runs no input.
Tick(k) ==
    /\ ctr[k].state = "up"
    /\ ctr[k].inflight = {}
    /\ ctr[k].idle < container_idle_timeout
    /\ ctr' = [ctr EXCEPT ![k].idle =
                  IF @ + TickSeconds > container_idle_timeout
                      THEN container_idle_timeout ELSE @ + TickSeconds]
    /\ UNCHANGED req

\* The scheduler ends a container that was idle for container_idle_timeout.
Teardown(k) ==
    /\ ctr[k].state = "up"
    /\ ctr[k].inflight = {}
    /\ ctr[k].idle >= container_idle_timeout
    /\ ctr' = [ctr EXCEPT ![k] = NoContainer]
    /\ UNCHANGED req

(***************************************************************************)
(* Specifications                                                          *)
(***************************************************************************)
Init == InitSys /\ run = Nothing /\ la_pc = None /\ la_files = {} /\ la_tmp = 0
        /\ la_outcome = NoOutcome /\ decoded = "" /\ gen_pc = None /\ gen_outcome = NoOutcome

CallStep(c) ==
    \/ LoadAudioStep(c)
    \/ TranscribeBegin(c)
    \/ \E ok \in BOOLEAN : TranscribeEnd(c, ok)

Next ==
    /\ UNCHANGED <<decodeVars, genVars>>
    /\ \/ \E c \in Calls, data \in AudioBlobs : Post(c, data)
       \/ \E k \in Containers, c \in Calls, ok \in BOOLEAN : ColdStart(k, c, ok)
       \/ \E k \in Containers, c \in Calls : Admit(k, c)
       \/ \E c \in Calls : CallStep(c)
       \/ \E k \in Containers : Tick(k)
       \/ \E k \in Containers : Teardown(k)

Spec == Init /\ [][Next]_vars

\* A call that runs on a container keeps running.
FairSpec == Spec /\ \A c \in Calls : WF_vars(CallStep(c) /\ UNCHANGED <<decodeVars, genVars>>)

InitD == InitDecode /\ decoded = "" /\ gen_pc = None /\ gen_outcome = NoOutcome
         /\ req = <<>> /\ ctr = <<>>
NextDecode == LoadAudio /\ UNCHANGED <<genVars, sysVars>>
SpecDecode == InitD /\ [][NextDecode]_vars

InitG == InitGen /\ run = Nothing /\ la_pc = None /\ la_files = {} /\ la_tmp = 0
         /\ la_outcome = NoOutcome /\ req = <<>> /\ ctr = <<>>
NextGen == Generate /\ UNCHANGED <<decodeVars, sysVars>>
SpecGen == InitG /\ [][NextGen]_vars

(***************************************************************************)
(* Properties                                                              *)
(***************************************************************************)

\* C1 (as claimed): once load_audio has ended, by return or by exception, the
\* temporary file it created no longer exists.
C1_TempFileDeleted == la_pc = "done" => la_tmp \notin la_files

\* C2: when the decoder exits with a nonzero status, load_audio ends in its
\* decode error (the RuntimeError of line 47), the message ends with the
\* decoder's stderr text, and no buffer is returned, whatever the decoder had
\* already written to stdout.
C2_DecodeErrorCarriesStderr ==
    (la_pc = "done" /\ run.status # 0) =>
        /\ la_outcome.kind = "RuntimeError"
        /\ la_outcome.value = Nothing
        /\ Len(la_outcome.msg) > Len(run.stderr)
        /\ SubSeq(la_outcome.msg, Len(la_outcome.msg) - Len(run.stderr) + 1,
                  Len(la_outcome.msg)) = run.stderr

C2_Witness ==
    /\ la_pc = "done"
    /\ run.status # 0
    /\ Len(run.stdout) >= 2
    /\ run.stderr # ""
    /\ la_outcome.kind = "RuntimeError"

\* C9: every sample of a returned buffer is s / 32768 with
\* -32768 <= s <= 32767, hence in [-1.0, 1.0) and never 1.0.
C9_SamplesInRange ==
    (la_pc = "done" /\ la_outcome.kind = "return") =>
        \A i \in DOMAIN Get(la_outcome.value) :
            /\ Get(la_outcome.value)[i].den = 32768
            /\ -32768 <= Get(la_outcome.value)[i].num
            /\ Get(la_outcome.value)[i].num <= 32767
            /\ Get(la_outcome.value)[i].num < Get(la_outcome.value)[i].den

C9_Witness ==
    /\ la_pc = "done"
    /\ la_outcome.kind = "return"
    /\ \E i \in DOMAIN Get(la_outcome.value) : Get(la_outcome.value)[i].num = -32768
    /\ \E i \in DOMAIN Get(la_outcome.value) : Get(la_outcome.value)[i].num = 32767

\* The places at which the marker occurs in a string.
MarkerAt(s) ==
    {i \in 1..(Len(s) - Len(ResponseMarker) + 1) : SubSeq(s, i, i + Len(ResponseMarker) - 1) = ResponseMarker}
FirstMarker(s) == CHOOSE i \in MarkerAt(s) : \A j \in MarkerAt(s) : i <= j

\* t is seg without its leading and trailing whitespace.
IsTrimOf(t, seg) ==
    \E i \in 1..(Len(seg) + 1), j \in 0..Len(seg) :
        /\ t = SubSeq(seg, i, j)
        /\ \A n \in 1..(i - 1) : SubSeq(seg, n, n) \in Whitespace
        /\ \A n \in (j + 1)..Len(seg) : SubSeq(seg, n, n) \in Whitespace
        /\ i <= j => /\ SubSeq(seg, i, i) \notin Whitespace
                     /\ SubSeq(seg, j, j) \notin Whitespace

\* C6 (as claimed): a decoded output without the marker makes generate fail
\* with MalformedOutputError, not with an indexing fault.
C6_MalformedOutputError ==
    (gen_pc = "done" /\ MarkerAt(decoded) = {}) =>
        gen_outcome.kind = "MalformedOutputError"

\* C10 (as claimed): a decoded output with the marker makes generate return
\* all the text after the first marker up to the end of the output, trimmed.
C10_AllAfterFirstMarker ==
    (gen_pc = "done" /\ MarkerAt(decoded) # {}) =>
        /\ gen_outcome.kind = "return"
        /\ IsTrimOf(Get(gen_outcome.value),
                    SubSeq(decoded, FirstMarker(decoded) + Len(ResponseMarker), Len(decoded)))

\* C10 (amended): a decoded output with the marker makes generate return the
\* text between the first marker and the next occurrence of the marker (the
\* end of the output when there is none), trimmed.
C10_UpToNextMarker ==
    (gen_pc = "done" /\ MarkerAt(decoded) # {}) =>
        LET from == FirstMarker(decoded) + Len(ResponseMarker)
            later == {i \in MarkerAt(decoded) : i >= from}
            to == IF later = {} THEN Len(decoded)
                  ELSE (CHOOSE i \in later : \A j \in later : i <= j) - 1
        IN  /\ gen_outcome.kind = "return"
            /\ IsTrimOf(Get(gen_outcome.value), SubSeq(decoded, from, to))

C10_Witness ==
    /\ gen_pc = "done"
    /\ Cardinality(MarkerAt(decoded)) = 2
    /\ gen_outcome.kind = "return"
    /\ Get(gen_outcome.value) = "blue"
    /\ decoded = ResponseMarker \o " blue" \o ResponseMarker

Running == {"load_audio", "transcribe", "inferring"}
Ended == {"responded"}

\* C3: in a transcribe_segment call the model is invoked only after load_audio
\* has returned the samples of that call; when load_audio fails the model is
\* not invoked, the call ends in load_audio's own error, and the response
\* holds no transcript.
C3_DecodeBeforeInference ==
    \A c \in Calls :
        /\ req[c].pc = "load_audio" => req[c].invoked = 0 /\ req[c].np_array = Nothing
        /\ req[c].invoked > 0 =>
              /\ load_audio(Get(req[c].data)).kind = "return"
              /\ req[c].np_array = load_audio(Get(req[c].data)).value
        /\ (req[c].pc \in Ended /\ load_audio(Get(req[c].data)).kind # "return") =>
              /\ req[c].invoked = 0
              /\ req[c].outcome \in {load_audio(Get(req[c].data)),
                                     [kind |-> "load_model", msg |-> None, value |-> Nothing]}
        /\ (req[c].pc = "responded" /\ load_audio(Get(req[c].data)).kind # "return") =>
              req[c].resp.status # 200

C3_Witness ==
    \E c \in Calls :
        /\ req[c].pc = "responded"
        /\ Get(req[c].data).status # 0
        /\ req[c].outcome.kind = "RuntimeError"
        /\ req[c].invoked = 0

\* C4: a container that is up has acquired the model exactly once, however
\* many calls it has served, and an inference runs only on a container whose
\* acquisition is complete.
C4_OneAcquisition ==
    /\ \A k \in Containers :
          /\ ctr[k].state = "up" => ctr[k].acquisitions = 1 /\ ctr[k].model # None
          /\ ctr[k].state = "down" => ctr[k].acquisitions = 0
    /\ \A c \in Calls :
          req[c].pc = "inferring" =>
              /\ ctr[req[c].k].state = "up"
              /\ ctr[req[c].k].model # None
              /\ ctr[req[c].k].acquisitions = 1

C4_Witness ==
    \E k \in Containers : \E c \in Calls :
        /\ ctr[k].state = "up"
        /\ Cardinality(ctr[k].files) >= 1
        /\ req[c].pc = "inferring"
        /\ req[c].k = k
        /\ ctr[k].acquisitions = 1

C7_ResponseMapping ==
    \A c \in Calls :
        req[c].pc = "responded" =>
            IF req[c].outcome.kind = "return"
                THEN /\ req[c].resp.status = 200
                     /\ req[c].resp.body = Get(req[c].outcome.value).text
                     /\ req[c].resp.body = Transcript(Get(load_audio(Get(req[c].data)).value))
                ELSE /\ req[c].resp.status \in 500..599
                     /\ req[c].resp.body # ""
                     /\ \A d \in AudioBlobs :
                            load_audio(d).kind = "return" =>
                                req[c].resp.body # Transcript(Get(load_audio(d).value))

C7_Witness ==
    \E c1, c2 \in Calls :
        /\ req[c1].pc = "responded"
        /\ req[c1].resp.status = 200
        /\ req[c2].pc = "responded"
        /\ req[c2].outcome.kind = "inference"
        /\ req[c2].resp.status = 500

\* C8: a container goes down only when it runs no call and has been idle for
\* 180 seconds, and every call that has started on a container ends with a
\* result or an error.
C8_TeardownOnlyWhenIdle ==
    /\ [][\A k \in Containers :
              (ctr[k].state = "up" /\ ctr'[k].state = "down") =>
                  /\ ctr[k].inflight = {}
                  /\ ctr[k].idle >= 180]_vars
    /\ \A c \in Calls :
          (req[c].pc \in Running) ~> (req[c].pc \in Ended /\ req[c].outcome.kind # "none")

\* A call was served and the container that served it has been torn down.
C8_Witness ==
    /\ \A k \in Containers : ctr[k].state = "down"
    /\ \E c \in Calls : req[c].pc = "responded" /\ req[c].outcome.kind = "return"

====
